---- MODULE Spec2Model ----
(***************************************************************************)
(* A model of anymarkup 0.1.1 (src/anymarkup/__init__.py): the format      *)
(* resolver (_get_format), the content sniffer (_guess_fmt_from_bytes),    *)
(* the text normalizer (_ensure_unicode_recursive) and the four public     *)
(* operations parse, parse_file, serialize and serialize_file.             *)
(*                                                                         *)
(* Values.  A Python string (text or bytes) is a sequence of tokens: a     *)
(* byte payload is a sequence of single bytes, a file name or a format     *)
(* override is a sequence of path tokens ("/", ".", or a fragment that     *)
(* holds neither).  An optional value is a sequence of length 0 (None) or  *)
(* 1 (the value), so that None and the empty string stay different.        *)
(***************************************************************************)
EXTENDS Naturals, Sequences, FiniteSets

VARIABLES
    call,      \* the operation in progress or last made, with its arguments
    outcome,   \* what the operation returned or raised, and the steps it took
    files,     \* the file system: path -> content
    handle,    \* the file object opened by parse_file / serialize_file
    PY2        \* six.PY2: the interpreter family the library runs on

vars == <<call, outcome, files, handle, PY2>>

None == <<>>
Some(x) == <<x>>
IsNone(o) == o = <<>>
Val(o) == o[1]

\* Sequences over S of length at most n.
SeqUpTo(S, n) == UNION {[1..k -> S] : k \in 0..n}

(***************************************************************************)
(* Bounds                                                                  *)
(***************************************************************************)
\* longest byte payload given to the sniffer
MaxLen == 5
\* longest file name, in path tokens
MaxNameLen == 3

(***************************************************************************)
(* The codec registry                                                      *)
(***************************************************************************)
fmt_to_exts ==
    [f \in {<<"ini">>, <<"json">>, <<"xml">>, <<"yaml">>} |->
        CASE f = <<"ini">>  -> {<<"ini">>}
          [] f = <<"json">> -> {<<"json">>}
          [] f = <<"xml">>  -> {<<"xml">>}
          [] f = <<"yaml">> -> {<<"yaml">>, <<"yml">>}]

Formats == DOMAIN fmt_to_exts

(***************************************************************************)
(* Bytes: the bytes the sniffer tells apart; "a" stands for a word byte and *)
(* "!" for a byte that is none of the others.                              *)
(***************************************************************************)
Bytes == {" ", "\n", "#", "[", "]", "a", "-", "<", "!"}

\* bytes.strip() removes ASCII whitespace; of these bytes, " " and "\n".
IsSpace(b) == b \in {" ", "\n"}
\* \w of a bytes pattern: [a-zA-Z0-9_]
IsWord(b) == b = "a"

RECURSIVE LStrip(_)
LStrip(s) ==
    IF s # <<>> /\ IsSpace(Head(s)) THEN LStrip(Tail(s)) ELSE s

RECURSIVE RStrip(_)
RStrip(s) ==
    IF s # <<>> /\ IsSpace(s[Len(s)]) THEN RStrip(SubSeq(s, 1, Len(s) - 1)) ELSE s

\* bytes.strip()
Strip(s) == RStrip(LStrip(s))

\* bytes.splitlines(): lines end at "\n"; no empty last line after a final "\n".
RECURSIVE SplitLines(_)
SplitLines(s) ==
    IF s = <<>> THEN <<>>
    ELSE LET nl == {i \in 1..Len(s) : s[i] = "\n"}
         IN  IF nl = {} THEN <<s>>
             ELSE LET i == CHOOSE k \in nl : \A j \in nl : k <= j
                  IN  <<SubSeq(s, 1, i - 1)>> \o SplitLines(SubSeq(s, i + 1, Len(s)))

\* bytes.startswith(prefix) for a one-byte prefix
StartsWith(s, b) == s # <<>> /\ Head(s) = b

\* ini_section_header_re.match(line): ^\[([\w-]+)\]
IniHeaderMatch(line) ==
    /\ StartsWith(line, "[")
    /\ \E k \in 3..Len(line) :
          /\ line[k] = "]"
          /\ \A j \in 2..(k - 1) : IsWord(line[j]) \/ line[j] = "-"

\* An exception of type exc; cause is what AnyMarkupError.cause holds: a message
\* with the inputs it names, or the type of the exception it wraps.
Cause(msg) == [msg |-> msg, what |-> {}]
Raised(exc, cause) == [kind |-> "raise", exc |-> exc, cause |-> cause]
Returned(v) == [kind |-> "return", value |-> v]

\* The local `line` before the for loop binds it.
Unbound == <<"unbound">>

\* The for loop of _guess_fmt_from_bytes: `line` after the loop is the first
\* stripped line that is non-empty and does not start with "#" (the break), or
\* the last line's strip when the loop runs to its end; it stays unbound when
\* there is no line at all.
RECURSIVE ScanLines(_, _)
ScanLines(lines, line) ==
    IF lines = <<>> THEN line
    ELSE LET l == Strip(Head(lines))
         IN  IF ~StartsWith(l, "#") /\ l # <<>> THEN l
             ELSE ScanLines(Tail(lines), l)

\* A sniffer that tests the whole stripped input and skips no comment line.
GuessNoCommentSkip(inp) ==
    LET stripped == Strip(inp)
    IN  IF Len(stripped) = 0 THEN Returned(<<"yaml">>)
        ELSE IF StartsWith(stripped, "<") THEN Returned(<<"xml">>)
        ELSE IF IniHeaderMatch(stripped) THEN Returned(<<"ini">>)
        ELSE Returned(<<"yaml">>)

\* _guess_fmt_from_bytes(inp)
GuessFmtFromBytes(inp) ==
    LET stripped == Strip(inp)
    IN  IF Len(stripped) = 0 THEN Returned(<<"yaml">>)
        ELSE IF StartsWith(stripped, "<") THEN Returned(<<"xml">>)
        ELSE LET line == ScanLines(SplitLines(stripped), Unbound)
             IN  IF line = Unbound THEN Raised("NameError", Cause("line"))
                 ELSE IF IniHeaderMatch(line) THEN Returned(<<"ini">>)
                 ELSE Returned(<<"yaml">>)

(***************************************************************************)
(* File names: os.path.splitext (posixpath), on path tokens.               *)
(***************************************************************************)
PathTokens == {"/", ".", "a", "ini", "json", "xml", "yaml", "yml"}

\* str.rfind(t): the last index of token t in p, 0 when there is none.
RFind(p, t) ==
    LET at == {i \in 1..Len(p) : p[i] = t}
    IN  IF at = {} THEN 0 ELSE CHOOSE i \in at : \A j \in at : j <= i

\* os.path.splitext(p)[1]: from the last "." of the last path component, when a
\* token other than "." precedes it in that component; else empty.
SplitExt(p) ==
    LET sepIndex == RFind(p, "/")
        dotIndex == RFind(p, ".")
    IN  IF /\ dotIndex > sepIndex
           /\ \E i \in (sepIndex + 1)..(dotIndex - 1) : p[i] # "."
        THEN SubSeq(p, dotIndex, Len(p))
        ELSE <<>>

\* os.path.splitext(fname)[1][len(os.path.extsep):]
FileExt(fname) ==
    LET ext == SplitExt(fname) IN SubSeq(ext, 2, Len(ext))

\* bool(k) of an optional string: None and the empty string are false.
Truthy(k) == ~IsNone(k) /\ Val(k) # <<>>

\* The dict literal {format: ..., fname: ..., inp: ...} of the failure branch,
\* read back: a later equal key replaces the value of an earlier one.  The
\* branch runs only with inp = None.
WhatLabel(k, fname, inp) ==
    IF k = inp THEN "input string"
    ELSE IF k = fname THEN "filename"
    ELSE "specified format argument"

GuessFailure(format, fname, inp) ==
    LET what == {WhatLabel(k, fname, inp) : k \in {j \in {format, fname, inp} : Truthy(j)}}
    IN  Raised("AnyMarkupError",
               [msg |-> "Failed to guess markup format based on: ",
                what |-> IF what = {} THEN {"nothing to guess format from!"} ELSE what])

\* The format owning extension file_ext, None when there is none (the loop over
\* fmt_to_exts.items(); the registry's extensions are disjoint).
FmtOfExt(file_ext) ==
    LET owners == {f \in Formats : file_ext \in fmt_to_exts[f]}
    IN  IF owners = {} THEN None ELSE Some(CHOOSE f \in owners : TRUE)

\* A resolver that looks at the file name before the override.
GetFormatNameFirst(format, fname, inp) ==
    LET byName == IF Truthy(fname) THEN FmtOfExt(FileExt(Val(fname))) ELSE None
        fmt == IF ~IsNone(byName) THEN byName
               ELSE IF ~IsNone(format) /\ Val(format) \in Formats THEN format
               ELSE None
    IN  IF ~IsNone(fmt) THEN Returned(Val(fmt))
        ELSE IF ~IsNone(inp) THEN GuessFmtFromBytes(Val(inp))
        ELSE GuessFailure(format, fname, inp)

\* A resolver that refuses an unsupported override, as the docstring words it.
GetFormatStrictOverride(format, fname, inp) ==
    LET fmt == IF ~IsNone(format)
               THEN (IF Val(format) \in Formats THEN format ELSE None)
               ELSE IF Truthy(fname) THEN FmtOfExt(FileExt(Val(fname)))
               ELSE None
    IN  IF ~IsNone(fmt) THEN Returned(Val(fmt))
        ELSE IF ~IsNone(inp) /\ IsNone(format) THEN GuessFmtFromBytes(Val(inp))
        ELSE GuessFailure(format, fname, inp)

\* _get_format(format, fname, inp=None)
GetFormat(format, fname, inp) ==
    LET fmt == IF ~IsNone(format)
               THEN (IF Val(format) \in Formats THEN format ELSE None)
               ELSE IF Truthy(fname) THEN FmtOfExt(FileExt(Val(fname)))
               ELSE None
    IN  IF ~IsNone(fmt) THEN Returned(Val(fmt))
        ELSE IF ~IsNone(inp) THEN GuessFmtFromBytes(Val(inp))
        ELSE GuessFailure(format, fname, inp)

(***************************************************************************)
(* Trees: what a codec hands back and what parse returns.  A tree is a     *)
(* tagged sequence: a leaf <<tag>>, a sequence <<"list", item>> or         *)
(* <<"list">>, a mapping <<"dict", key, value>> or <<"dict">>.             *)
(***************************************************************************)
\* deepest nesting of a tree
MaxDepth == 1

\* text: decoded text; bytes: a byte string the encoding decodes; badbytes:
\* one it does not; null, bool; int: a type the normalizer does not accept.
LeafTags == {"text", "bytes", "badbytes", "null", "bool", "int"}
KeyTags == {"text", "bytes", "badbytes"}

RECURSIVE TreesOver(_, _)
TreesOver(tags, d) ==
    LET leaves == {<<t>> : t \in tags}
    IN  IF d = 0 THEN leaves
        ELSE LET sub == TreesOver(tags, d - 1)
             IN  leaves \cup {<<"list">>, <<"dict">>}
                   \cup {<<"list", x>> : x \in sub}
                   \cup {<<"dict", <<k>>, v>> : k \in tags \cap KeyTags, v \in sub}

IsDict(t) == t[1] = "dict"

\* Whether an undecoded byte string sits at a leaf or a mapping key of t.
RECURSIVE HasBytes(_)
HasBytes(t) ==
    \/ t[1] \in {"bytes", "badbytes"}
    \/ \E i \in 2..Len(t) : HasBytes(t[i])

\* _ensure_unicode_recursive(struct, encoding)
RECURSIVE EnsureUnicodeRecursive(_)
EnsureUnicodeRecursive(struct) ==
    IF struct[1] \in {"dict", "list"}
    THEN LET parts == [i \in 2..Len(struct) |-> EnsureUnicodeRecursive(struct[i])]
             failed == {i \in 2..Len(struct) : parts[i].kind = "raise"}
         IN  IF failed # {}
             THEN parts[CHOOSE i \in failed : \A j \in failed : i <= j]
             ELSE Returned([i \in 1..Len(struct) |->
                               IF i = 1 THEN struct[1] ELSE parts[i].value])
    ELSE IF struct[1] = "bytes" THEN Returned(<<"text">>)
    ELSE IF struct[1] = "badbytes" THEN Raised("UnicodeDecodeError", Cause("decode"))
    ELSE IF struct[1] \in {"text", "null", "bool"} THEN Returned(struct)
    ELSE Raised("AnyMarkupError",
                Cause("internal error - unexpected type in parsed markup"))

\* AnyMarkupError(e)
Wrap(r) == Raised("AnyMarkupError", Cause(r.exc))

(***************************************************************************)
(* The codecs (configobj, json, xmltodict, yaml) are outside the library:  *)
(* a call to one either raises or hands back one of the trees that codec   *)
(* can build.                                                              *)
(***************************************************************************)
CodecRaises == <<"raise">>

\* What the decoder of fmt can do on interpreter family py2 with a document
\* that is blank (empty once stripped) or not.  A blank document is an empty
\* mapping for configobj, nothing (None) for yaml.safe_load and an error for
\* json and xmltodict.  Otherwise configobj gives a mapping, of text on
\* Python 3 and possibly of byte strings on Python 2 (the workaround of line
\* 166); json and xmltodict give text; yaml.safe_load gives byte strings for
\* str scalars on Python 2 and for !!binary scalars on Python 3, and numbers
\* on both.
DecoderResults(fmt, py2, blank) ==
    IF blank
    THEN CASE fmt = <<"ini">> -> {<<"dict">>}
           [] fmt = <<"yaml">> -> {<<"null">>}
           [] OTHER -> {CodecRaises}
    ELSE {CodecRaises} \cup
         CASE fmt = <<"ini">> ->
                {t \in TreesOver(IF py2 THEN {"text", "bytes", "badbytes"} ELSE {"text"},
                                 MaxDepth) : IsDict(t)}
           [] fmt = <<"json">> -> TreesOver({"text", "null", "bool", "int"}, MaxDepth)
           [] fmt = <<"xml">> -> {t \in TreesOver({"text", "null"}, MaxDepth) : IsDict(t)}
           [] fmt = <<"yaml">> -> TreesOver(LeafTags, MaxDepth)

\* DecoderResults, tabulated.
DecoderTable ==
    [fmt \in Formats, py2 \in BOOLEAN, blank \in BOOLEAN |-> DecoderResults(fmt, py2, blank)]

\* _do_parse(inp, fmt, encoding); codec is what the decoder of fmt does.
DoParse(fmt, py2, codec) ==
    IF fmt \notin Formats THEN Raised("RuntimeError", Cause("unknown format"))
    ELSE IF codec = CodecRaises THEN Raised("CodecError", Cause(fmt[1]))
    ELSE IF fmt \in {<<"ini">>, <<"yaml">>} /\ py2 THEN EnsureUnicodeRecursive(codec)
    ELSE Returned(codec)

\* The bytes the encoder of fmt produces (a stand-in: some non-empty payload).
Encoded(fmt) ==
    CASE fmt = <<"ini">> -> <<"[", "a", "]">>
      [] fmt = <<"xml">> -> <<"<", "a">>
      [] OTHER -> <<"a", "!">>

\* _do_serialize(struct, fmt, encoding); codecOk: the encoder of fmt accepts
\* struct.  The ini branch calls struct.items(), which a sequence lacks.
DoSerialize(struct, fmt, codecOk) ==
    IF fmt \notin Formats THEN Raised("RuntimeError", Cause("unknown format"))
    ELSE IF fmt = <<"ini">> /\ ~IsDict(struct) THEN Raised("AttributeError", Cause("items"))
    ELSE IF ~codecOk THEN Raised("CodecError", Cause(fmt[1]))
    ELSE Returned(Encoded(fmt))

(***************************************************************************)
(* The public operations.  Each gives the call's result, the steps it      *)
(* took, in order, and the bytes it wrote to its destination (None: none). *)
(***************************************************************************)
Out(res, trace, written) == [res |-> res, trace |-> trace, written |-> written]

\* An input of parse: a byte string, a text string, or a stream (binary or
\* text) with an optional name attribute.  readOk: read() succeeds; encodeOk:
\* the text encodes in the requested encoding.
IsStream(inp) == inp.kind \in {"stream", "textstream"}
IsText(inp) == inp.kind \in {"text", "textstream"}

\* parse(inp, format, encoding); codec is what the decoder does.
Parse(inp, format, py2, codec) ==
    IF IsStream(inp) /\ ~inp.readOk
    THEN Out(Raised("IOError", Cause("read")), <<"read">>, None)
    ELSE
    LET t1 == IF IsStream(inp) THEN <<"read">> ELSE <<>>
    IN  IF IsText(inp) /\ ~inp.encodeOk
        THEN Out(Raised("UnicodeEncodeError", Cause("encode")), t1 \o <<"encode_text">>, None)
        ELSE
        LET t2 == IF IsText(inp) THEN t1 \o <<"encode_text">> ELSE t1
            fname == IF IsStream(inp) THEN inp.name ELSE None
            fmt == GetFormat(format, fname, Some(inp.data))
        IN  IF fmt.kind = "raise" THEN Out(fmt, t2 \o <<"resolve">>, None)
            ELSE
            LET res == DoParse(fmt.value, py2, codec)
            IN  IF res.kind = "raise"
                THEN Out(Wrap(res), t2 \o <<"resolve", "decode">>, None)
                ELSE Out(Returned(IF res.value = <<"null">> THEN <<"dict">> ELSE res.value),
                         t2 \o <<"resolve", "decode">>, None)

\* hasattr(target, 'encoding') and target.encoding
TextMode(target) ==
    ~IsNone(target) /\ Val(target).encoding \notin {"absent", "None", ""}

DestinationModeError ==
    Raised("AnyMarkupError", Cause("Input file must be opened in binary mode"))

\* A serialize that looks at the destination's mode only when it is about to
\* write.
SerializeLateCheck(struct, format, target, codecOk) ==
    LET fname == IF IsNone(target) THEN None ELSE Val(target).name
        fmt == GetFormat(format, fname, None)
    IN  IF fmt.kind = "raise" THEN Out(fmt, <<"resolve">>, None)
        ELSE
        LET serialized == DoSerialize(struct, fmt.value, codecOk)
        IN  IF serialized.kind = "raise" THEN Out(serialized, <<"resolve", "encode">>, None)
            ELSE IF TextMode(target)
            THEN Out(DestinationModeError, <<"resolve", "encode">>, None)
            ELSE IF IsNone(target) THEN Out(serialized, <<"resolve", "encode">>, None)
            ELSE IF Val(target).writeOk
            THEN Out(Returned(<<"write-result">>), <<"resolve", "encode", "write">>,
                     Some(serialized.value))
            ELSE Out(Wrap(Raised("IOError", Cause("write"))),
                     <<"resolve", "encode", "write">>, None)

\* serialize(struct, format, target, encoding); codecOk: the encoder accepts
\* struct.
Serialize(struct, format, target, codecOk) ==
    IF TextMode(target) THEN Out(DestinationModeError, <<>>, None)
    ELSE
    LET fname == IF IsNone(target) THEN None ELSE Val(target).name
        fmt == GetFormat(format, fname, None)
    IN  IF fmt.kind = "raise" THEN Out(fmt, <<"resolve">>, None)
        ELSE
        LET serialized == DoSerialize(struct, fmt.value, codecOk)
        IN  IF serialized.kind = "raise" THEN Out(serialized, <<"resolve", "encode">>, None)
            ELSE IF IsNone(target) THEN Out(serialized, <<"resolve", "encode">>, None)
            ELSE IF Val(target).writeOk
            THEN Out(Returned(<<"write-result">>), <<"resolve", "encode", "write">>,
                     Some(serialized.value))
            ELSE Out(Wrap(Raised("IOError", Cause("write"))),
                     <<"resolve", "encode", "write">>, None)

\* EnvironmentError and its subclasses (IOError, OSError)
IsEnvironmentError(exc) == exc \in {"EnvironmentError", "IOError", "OSError"}

\* The except clause of parse_file and serialize_file.
WrapEnvironmentError(out) ==
    IF out.res.kind = "raise" /\ IsEnvironmentError(out.res.exc)
    THEN [out EXCEPT !.res = Wrap(out.res)]
    ELSE out

\* open() failed: the EnvironmentError reaches the except clause.
OpenFailed == Out(Raised("IOError", Cause("open")), <<"open">>, None)

Opened(out) == [out EXCEPT !.trace = <<"open">> \o @]

\* parse_file(path, format, encoding); content: what the file at path holds,
\* None when open(path, 'rb') fails; readOk: the file's read() succeeds.
ParseFile(path, content, format, py2, codec, readOk) ==
    WrapEnvironmentError(
        IF IsNone(content) THEN OpenFailed
        ELSE Opened(Parse([kind |-> "stream", data |-> Val(content), name |-> Some(path),
                           readOk |-> readOk, encodeOk |-> TRUE],
                          format, py2, codec)))

\* The object open(path, 'wb') gives: no text encoding (Python 2's file has
\* the attribute, set to None), the path as its name.
BinaryFile(path, py2, writeOk) ==
    Some([encoding |-> IF py2 THEN "None" ELSE "absent", name |-> Some(path),
          writeOk |-> writeOk])

\* serialize_file(struct, path, format, encoding); openOk: open(path, 'wb')
\* succeeds.  The arguments of the call to serialize are evaluated first, so
\* the file is opened before serialize runs.
SerializeFile(struct, path, format, py2, openOk, codecOk, writeOk) ==
    WrapEnvironmentError(
        IF ~openOk THEN OpenFailed
        ELSE Opened(Serialize(struct, format, BinaryFile(path, py2, writeOk), codecOk)))

\* The file at path after serialize_file: open(path, 'wb') creates or empties
\* it; the bytes written reach it once the file object is flushed, which the
\* library leaves to the object's finalizer.
FileAfter(before, out, closed) ==
    IF out.trace = <<"open">> THEN {before}
    ELSE IF IsNone(out.written) THEN {Some(<<>>)}
    ELSE IF closed THEN {out.written}
    ELSE {Some(<<>>), out.written}

(***************************************************************************)
(* Outcomes                                                                *)
(***************************************************************************)
NoCall == [op |-> "none"]
Pending == [kind |-> "pending"]

(***************************************************************************)
(* SpecSniff: the sniffer applied to every payload up to MaxLen bytes.     *)
(***************************************************************************)
InitSniff ==
    /\ call \in {[op |-> "_guess_fmt_from_bytes", inp |-> p] : p \in SeqUpTo(Bytes, MaxLen)}
    /\ outcome = Pending
    /\ files = <<>>
    /\ handle = None
    /\ PY2 = FALSE

Sniff ==
    /\ call.op = "_guess_fmt_from_bytes"
    /\ outcome = Pending
    /\ outcome' = GuessFmtFromBytes(call.inp)
    /\ UNCHANGED <<call, files, handle, PY2>>

NextSniff == Sniff

SpecSniff == InitSniff /\ [][NextSniff]_vars

(***************************************************************************)
(* SpecFormat: the resolver applied to every combination of an override,   *)
(* a file name of at most MaxNameLen tokens and a payload.                 *)
(***************************************************************************)
Overrides ==
    {None} \cup {Some(s) : s \in {<<>>, <<"ini">>, <<"json">>, <<"xml">>, <<"yaml">>,
                                  <<"yml">>, <<"a">>, <<"a", ".", "ini">>}}

Names == {None} \cup {Some(n) : n \in SeqUpTo(PathTokens, MaxNameLen)}

Payloads ==
    {None} \cup {Some(p) : p \in {<<>>, <<" ", "\n">>, <<"<", "a">>, <<"[", "a", "]">>,
                                  <<"a", "!">>, <<"#", "\n", "[", "-", "]">>, <<"#", "a">>}}

InitFormat ==
    /\ call \in {[op |-> "_get_format", format |-> f, fname |-> n, inp |-> p] :
                    f \in Overrides, n \in Names, p \in Payloads}
    /\ outcome = Pending
    /\ files = <<>>
    /\ handle = None
    /\ PY2 = FALSE

Resolve ==
    /\ call.op = "_get_format"
    /\ outcome = Pending
    /\ outcome' = GetFormat(call.format, call.fname, call.inp)
    /\ UNCHANGED <<call, files, handle, PY2>>

NextFormat == Resolve

SpecFormat == InitFormat /\ [][NextFormat]_vars

(***************************************************************************)
(* Claims about the sniffer (SpecSniff)                                    *)
(***************************************************************************)
Sniffed == call.op = "_guess_fmt_from_bytes" /\ outcome # Pending

\* The stripped lines of a payload, and the indices of its substantive lines:
\* neither blank nor starting with "#".
StrippedLines(inp) ==
    LET lines == SplitLines(Strip(inp)) IN [i \in 1..Len(lines) |-> Strip(lines[i])]

Substantive(l) == l # <<>> /\ l[1] # "#"

FirstSubstantive(inp) ==
    LET ls == StrippedLines(inp)
    IN  {i \in 1..Len(ls) : Substantive(ls[i]) /\ \A j \in 1..(i - 1) : ~Substantive(ls[j])}

Resolved == call.op = "_get_format" /\ outcome # Pending

Recognized(format) == ~IsNone(format) /\ Val(format) \in Formats

\* The formats owning the extension of file name n: n ends with "." and a
\* registered extension, and its last path component holds a token other than
\* "." before that dot.
OwnersOfName(n) ==
    {f \in Formats :
        /\ Len(n) >= 3
        /\ <<n[Len(n)]>> \in fmt_to_exts[f]
        /\ n[Len(n) - 1] = "."
        /\ \E i \in 1..(Len(n) - 2) :
              /\ n[i] \notin {".", "/"}
              /\ \A j \in i..(Len(n) - 2) : n[j] # "/"}

NameResolves(fname) == ~IsNone(fname) /\ OwnersOfName(Val(fname)) # {}

\* C1: precedence override > filename > content: a recognized override is the
\* result whatever the file name and the payload are; with no override, a file
\* name with a recognized extension gives the format owning that extension
\* whatever the payload is.
C1_Precedence ==
    Resolved =>
        /\ Recognized(call.format) => outcome = Returned(Val(call.format))
        /\ (IsNone(call.format) /\ NameResolves(call.fname)) =>
               \A f \in OwnersOfName(Val(call.fname)) : outcome = Returned(f)

\* The override wins over a file name and a payload that point elsewhere.
C1_Witness ==
    /\ Resolved
    /\ call.format = Some(<<"ini">>)
    /\ call.fname = Some(<<"a", ".", "json">>)
    /\ call.inp = Some(<<"<", "a">>)
    /\ outcome = Returned(<<"ini">>)

\* C2: an override that is present but not a recognized identifier does not
\* end resolution: with a file name whose extension is recognized the result
\* is the format owning that extension, with or without a payload.  (Stated for
\* a non-empty override.)
C2_UnrecognizedOverrideFallsToName ==
    (Resolved /\ Truthy(call.format) /\ ~Recognized(call.format)
        /\ NameResolves(call.fname)) =>
        \A f \in OwnersOfName(Val(call.fname)) : outcome = Returned(f)

C8_DiagnosticNamesSupplied ==
    (Resolved /\ outcome.kind = "raise" /\ call.fname # Some(<<>>)) =>
        /\ "specified format argument" \in outcome.cause.what <=> ~IsNone(call.format)
        /\ "filename" \in outcome.cause.what <=> ~IsNone(call.fname)
        /\ "input string" \in outcome.cause.what <=> ~IsNone(call.inp)
        /\ "nothing to guess format from!" \in outcome.cause.what <=>
               (IsNone(call.format) /\ IsNone(call.fname) /\ IsNone(call.inp))

(***************************************************************************)
(* Spec: a caller makes calls of the four public operations, one after     *)
(* the other and in any order, on a small file system.  The library is     *)
(* synchronous: a call runs to its end before the next one starts.         *)
(***************************************************************************)
FacadeFormats ==
    {None} \cup {Some(f) : f \in Formats} \cup {Some(<<"a">>)}

FacadePayloads == {<<>>, <<"<", "a">>, <<"[", "a", "]">>, <<"a", "!">>}

StreamNames == {None, Some(<<"a", ".", "json">>)}

Paths == {<<"a", ".", "ini">>, <<"a", ".", "a">>}

Inputs ==
    {[kind |-> "bytes", data |-> d, name |-> None, readOk |-> TRUE, encodeOk |-> TRUE] :
        d \in FacadePayloads}
    \cup {[kind |-> "text", data |-> d, name |-> None, readOk |-> TRUE, encodeOk |-> e] :
        d \in FacadePayloads, e \in BOOLEAN}
    \cup {[kind |-> "stream", data |-> d, name |-> n, readOk |-> r, encodeOk |-> TRUE] :
        d \in FacadePayloads, n \in StreamNames, r \in BOOLEAN}
    \cup {[kind |-> "textstream", data |-> d, name |-> n, readOk |-> TRUE, encodeOk |-> e] :
        d \in FacadePayloads, n \in StreamNames, e \in BOOLEAN}

Structs == TreesOver({"text"}, MaxDepth)

Targets ==
    {None} \cup {Some([encoding |-> e, name |-> n, writeOk |-> w]) :
                    e \in {"absent", "None", "", "utf-8"}, n \in StreamNames, w \in BOOLEAN}

\* The decoder results possible for a call of parse: those of the format the
\* call resolves to.
Decodings(format, fname, data, py2) ==
    LET fmt == GetFormat(format, fname, Some(data))
    IN  IF fmt.kind = "return" THEN DecoderTable[fmt.value, py2, Strip(data) = <<>>]
        ELSE {CodecRaises}

Init ==
    /\ call = NoCall
    /\ outcome = Pending
    /\ files \in [Paths -> {None} \cup {Some(d) : d \in FacadePayloads}]
    /\ handle = None
    /\ PY2 \in BOOLEAN

CallParse ==
    /\ call = NoCall
    /\ \E inp \in Inputs, format \in FacadeFormats :
        \E codec \in Decodings(format, IF IsStream(inp) THEN inp.name ELSE None, inp.data, PY2) :
          /\ call' = [op |-> "parse", inp |-> inp, format |-> format]
          /\ outcome' = Parse(inp, format, PY2, codec)
          /\ handle' = None
          /\ UNCHANGED <<files, PY2>>

\* The file object is never closed by the library: whether it is closed when
\* the call ends is up to the interpreter's finalizer.
CallParseFile ==
    /\ call = NoCall
    /\ \E path \in Paths, format \in FacadeFormats, readOk \in BOOLEAN, closed \in BOOLEAN :
        \E codec \in Decodings(format, Some(path),
                                IF IsNone(files[path]) THEN <<>> ELSE Val(files[path]), PY2) :
          /\ call' = [op |-> "parse_file", path |-> path, format |-> format,
                      before |-> files[path]]
          /\ outcome' = ParseFile(path, files[path], format, PY2, codec, readOk)
          /\ handle' = IF IsNone(files[path]) THEN None
                       ELSE Some([path |-> path, mode |-> "rb", closed |-> closed])
          /\ UNCHANGED <<files, PY2>>

CallSerialize ==
    /\ call = NoCall
    /\ \E struct \in Structs, format \in FacadeFormats, target \in Targets, codecOk \in BOOLEAN :
          /\ call' = [op |-> "serialize", struct |-> struct, format |-> format,
                      target |-> target]
          /\ outcome' = Serialize(struct, format, target, codecOk)
          /\ handle' = None
          /\ UNCHANGED <<files, PY2>>

CallSerializeFile ==
    /\ call = NoCall
    /\ \E struct \in Structs, path \in Paths, format \in FacadeFormats,
         openOk \in BOOLEAN, codecOk \in BOOLEAN, writeOk \in BOOLEAN, closed \in BOOLEAN :
          LET out == SerializeFile(struct, path, format, PY2, openOk, codecOk, writeOk)
          IN  /\ call' = [op |-> "serialize_file", struct |-> struct, path |-> path,
                          format |-> format, before |-> files[path]]
              /\ outcome' = out
              /\ handle' = IF openOk THEN Some([path |-> path, mode |-> "wb", closed |-> closed])
                           ELSE None
              /\ \E after \in FileAfter(files[path], out, closed) :
                    files' = [files EXCEPT ![path] = after]
              /\ PY2' = PY2

\* The caller takes the result or the exception and moves on; the file
\* object of the call is no longer its concern.
Return ==
    /\ call # NoCall
    /\ call' = NoCall
    /\ outcome' = Pending
    /\ handle' = None
    /\ UNCHANGED <<files, PY2>>

Next == CallParse \/ CallParseFile \/ CallSerialize \/ CallSerializeFile \/ Return

Spec == Init /\ [][Next]_vars

(***************************************************************************)
(* Claims about the public operations (Spec)                               *)
(***************************************************************************)
PublicOps == {"parse", "parse_file", "serialize", "serialize_file"}

Failed == call.op \in PublicOps /\ outcome.res.kind = "raise"

\* C3: every failure that leaves one of the four public operations is an
\* AnyMarkupError, whatever step failed.
C3_OnlyAnyMarkupError ==
    Failed => outcome.res.exc = "AnyMarkupError"

\* C5: serialize with a destination that exposes a non-empty text encoding
\* fails with the destination-mode AnyMarkupError before format resolution,
\* before the encoder runs and before any write: the destination has received
\* nothing.
C5_TextModeRejectedFirst ==
    (call.op = "serialize" /\ TextMode(call.target)) =>
        /\ outcome.res = DestinationModeError
        /\ outcome.trace = <<>>
        /\ IsNone(outcome.written)

\* A text-mode destination with a usable name, a valid format and a tree the
\* encoder would have taken.
C5_Witness ==
    /\ call.op = "serialize"
    /\ call.target = Some([encoding |-> "utf-8", name |-> Some(<<"a", ".", "json">>),
                           writeOk |-> TRUE])
    /\ call.format = Some(<<"json">>)
    /\ call.struct = <<"dict", <<"text">>, <<"text">>>>
    /\ outcome.res = DestinationModeError

\* C6: a tree returned by parse holds no undecoded byte string at any leaf or
\* mapping key, whichever codec produced it.
C6_TextPurity ==
    (call.op \in {"parse", "parse_file"} /\ outcome.res.kind = "return") =>
        ~HasBytes(outcome.res.value)

\* C9: parse_file and serialize_file release the file handle they open: on
\* every exit path it is closed when the operation returns or raises.
C9_HandleReleased ==
    (call.op \in {"parse_file", "serialize_file"} /\ ~IsNone(handle)) =>
        Val(handle).closed

\* C10: serialize_file fails atomically: when the format cannot be resolved or
\* the encoder rejects the tree, the file at the path is as it was before the
\* call.
C10_SerializeFileAtomic ==
    (/\ call.op = "serialize_file"
     /\ outcome.res.kind = "raise"
     /\ outcome.trace \in {<<"open", "resolve">>, <<"open", "resolve", "encode">>}) =>
        files[call.path] = call.before

====
